---- MODULE Spec2Model ----
(***************************************************************************)
(* Model of trackmania_rl/buffer_utilities.py: the PrioritizedSampler      *)
(* (priorities kept in a sum segment tree and a min segment tree) and      *)
(* buffer_collate_function (n-step / mini-race targets, copies to the      *)
(* accelerator, image normalisation, random crop and horizontal flip).     *)
(*                                                                         *)
(* Numbers.  Priorities are modelled as integers: raw priorities are       *)
(* drawn from 0..MaxPriority, eps from EpsValues and the exponents alpha   *)
(* and beta from Alphas and Betas, so (p + eps)^alpha is exact.  An        *)
(* importance weight (p_i / p_min)^(-beta) is the fraction                 *)
(* p_min^beta / p_i^beta, kept as the pair [num, den]; den = 0 stands for  *)
(* a non-finite weight.  A random mass drawn from [0, p_sum) is modelled   *)
(* by an integer of 0..p_sum-1 (with integer leaves a mass m + f, 0<=f<1,  *)
(* selects the same leaf as m), and of these by the first and the last     *)
(* mass of every leaf's interval, which select what the masses between     *)
(* them select.                                                            *)
(*                                                                         *)
(* Calls.  The sampler is used by one caller at a time: a call runs from   *)
(* the idle state to the state that holds its arguments and its result,    *)
(* and Return brings the caller back to idle for the next call.            *)
(***************************************************************************)
EXTENDS Integers, Sequences, FiniteSets, TLC

\* ---------------------------------------------------------------- bounds
MaxCapacity == 2
MaxPriority == 2
MaxBatch == 2
MaxScale == 3
Horizon == 5
MiniRaceDuration == 10

Alphas == {1, 2}
Betas == {0, 1}
EpsValues == {0, 1}
CollateSizes == {1, 2}
UpdateLengths == {1, 2}

\* ---------------------------------------------------------------- helpers
Max(a, b) == IF a >= b THEN a ELSE b
Min(a, b) == IF a <= b THEN a ELSE b

RECURSIVE SeqMax(_)
SeqMax(s) == IF Len(s) = 1 THEN s[1] ELSE Max(s[1], SeqMax(Tail(s)))

Range(s) == {s[j] : j \in 1..Len(s)}

\* np.power and ** on numbers: x^0 is 1 for every x, 0 included.
Pow(b, e) == IF e = 0 THEN 1 ELSE b ^ e

SeqsOf(S, lo, hi) == UNION {[1..n -> S] : n \in lo..hi}

Slots == 0..(MaxCapacity - 1)
RawPriorities == 0..MaxPriority

\* ------------------------------------------------- the two segment trees
\* A tree over Capacity leaves (max_capacity rounded up to a power of two)
\* is the array of its nodes: node 1 is the root, node n has the children
\* 2n and 2n+1, leaf i is node Capacity + i.
RECURSIVE UpPow2(_, _)
UpPow2(c, n) == IF c >= n THEN c ELSE UpPow2(2 * c, n)

Capacity == UpPow2(1, MaxCapacity)
NodeIds == 1..(2 * Capacity - 1)

\* The identity of the min tree (the largest number of the tree's type):
\* larger than every priority that is stored or computed here.
Inf == ((MaxScale + 1) * (MaxPriority + 2)) ^ 2

Identity(kind) == IF kind = "sum" THEN 0 ELSE Inf
Combine(kind, a, b) == IF kind = "sum" THEN a + b ELSE Min(a, b)

NewTree(kind) == [n \in NodeIds |-> Identity(kind)]

TreeGet(tree, i) == tree[Capacity + i]

\* update(slot, value): overwrite the leaf, then recompute every ancestor.
RECURSIVE TreeFixUp(_, _, _)
TreeFixUp(tree, kind, node) ==
    IF node = 0 THEN tree
    ELSE TreeFixUp([tree EXCEPT ![node] = Combine(kind, tree[2 * node], tree[2 * node + 1])],
                   kind, node \div 2)

TreeUpdate(tree, kind, i, v) ==
    TreeFixUp([tree EXCEPT ![Capacity + i] = v], kind, (Capacity + i) \div 2)

\* tree[index] = value with an index array: one update per element, in
\* order; a single value is broadcast to every index.
RECURSIVE TreeSetItems(_, _, _, _)
TreeSetItems(tree, kind, idx, vals) ==
    IF Len(idx) = 0 THEN tree
    ELSE TreeSetItems(TreeUpdate(tree, kind, idx[1], vals[1]), kind, Tail(idx),
                      IF Len(vals) = 1 THEN vals ELSE Tail(vals))

\* query(lo, hi): the aggregate of the leaves lo..hi-1, from the nodes.
RECURSIVE TreeQueryNode(_, _, _, _, _, _, _)
TreeQueryNode(tree, kind, node, nlo, nhi, lo, hi) ==
    IF hi <= nlo \/ nhi <= lo THEN Identity(kind)
    ELSE IF lo <= nlo /\ nhi <= hi THEN tree[node]
    ELSE LET mid == (nlo + nhi) \div 2
         IN Combine(kind, TreeQueryNode(tree, kind, 2 * node, nlo, mid, lo, hi),
                          TreeQueryNode(tree, kind, 2 * node + 1, mid, nhi, lo, hi))

TreeQuery(tree, kind, lo, hi) == TreeQueryNode(tree, kind, 1, 0, Capacity, lo, hi)

\* scan_lower_bound(mass): descend from the root; go left when the mass is
\* below the left child's sum, else go right with the mass reduced by it.
RECURSIVE ScanNode(_, _, _)
ScanNode(tree, node, mass) ==
    IF node >= Capacity THEN node - Capacity
    ELSE IF mass < tree[2 * node] THEN ScanNode(tree, 2 * node, mass)
    ELSE ScanNode(tree, 2 * node + 1, mass - tree[2 * node])

scan_lower_bound(tree, mass) == ScanNode(tree, 1, mass)

\* ------------------------------------------------------------- the state
VARIABLES
    _alpha, _beta, _eps,    \* hyperparameters of the sampler
    _max_priority,          \* largest raw priority seen
    _sum_tree, _min_tree,   \* the two segment trees
    storage_len,            \* len(storage): records held by the replay buffer
    snapshot,               \* the dict last returned by state_dict()
    call,                   \* the last call and its arguments
    result,                 \* what the last call returned or raised
    batch,                  \* the records last handed to the collate function
    collated,               \* what the collate function returned
    misc,                   \* the augmentation switches of the configuration
    transfer,               \* the host-to-accelerator copies of the batch
    consumer                \* what the training step has read of the batch

samplerVars == <<_alpha, _beta, _eps, _max_priority, _sum_tree, _min_tree>>
collateVars == <<batch, collated, misc, transfer, consumer>>
vars == <<_alpha, _beta, _eps, _max_priority, _sum_tree, _min_tree,
          storage_len, snapshot, call, result, batch, collated,
          misc, transfer, consumer>>

NoCall ==
    [op |-> "none", index_kind |-> "none", index |-> <<>>,
     priority_kind |-> "none", priority |-> <<>>, batch_size |-> 0]

Ok == [status |-> "ok", index |-> <<>>, weight |-> <<>>]

\* No call is running and none has returned a result not yet taken.
Idle == call = NoCall
Raised(what) == [status |-> what, index |-> <<>>, weight |-> <<>>]

NoSnapshot ==
    [exists |-> FALSE, has_trees |-> FALSE, _alpha |-> 0, _beta |-> 0, _eps |-> 0,
     _max_priority |-> 0, _sum_tree |-> NewTree("sum"), _min_tree |-> NewTree("min")]

\* __init__ / _init: empty trees, _max_priority = 1.0.
InitialMaxPriority == 1

SamplerInit ==
    /\ _alpha \in Alphas
    /\ _beta \in Betas
    /\ _eps \in EpsValues
    /\ _max_priority = InitialMaxPriority
    /\ _sum_tree = NewTree("sum")
    /\ _min_tree = NewTree("min")
    /\ storage_len = 0
    /\ snapshot = NoSnapshot
    /\ call = NoCall
    /\ result = Ok

\* ------------------------------------------------------------ add, extend
default_priority_initial(max_priority, eps, alpha) == Pow(InitialMaxPriority + eps, alpha)

default_priority(max_priority, eps, alpha) == Pow(max_priority + eps, alpha)

\* _add_or_extend: the default priority is a scalar, so the length check
\* never raises; both trees get it at every given slot.
add_or_extend_tree(tree, kind, index, priority) ==
    TreeSetItems(tree, kind, index, <<priority>>)

\* The replay buffer stores a record at slot i (a new slot or one it
\* overwrites) and then calls add(i).
Add(i) ==
    /\ Idle
    /\ i <= storage_len
    /\ _sum_tree' = add_or_extend_tree(_sum_tree, "sum", <<i>>,
                                       default_priority(_max_priority, _eps, _alpha))
    /\ _min_tree' = add_or_extend_tree(_min_tree, "min", <<i>>,
                                       default_priority(_max_priority, _eps, _alpha))
    /\ storage_len' = Max(storage_len, i + 1)
    /\ call' = [NoCall EXCEPT !.op = "add", !.index_kind = "int", !.index = <<i>>]
    /\ result' = Ok
    /\ UNCHANGED <<_alpha, _beta, _eps, _max_priority, snapshot, collateVars>>

\* The replay buffer stores several records (the slots it fills are
\* contiguous with those it already holds) and then calls extend(index).
Extend(index) ==
    /\ Idle
    /\ \A s \in 0..(SeqMax(index) - 1) : s < storage_len \/ s \in Range(index)
    /\ _sum_tree' = add_or_extend_tree(_sum_tree, "sum", index,
                                       default_priority(_max_priority, _eps, _alpha))
    /\ _min_tree' = add_or_extend_tree(_min_tree, "min", index,
                                       default_priority(_max_priority, _eps, _alpha))
    /\ storage_len' = Max(storage_len, SeqMax(index) + 1)
    /\ call' = [NoCall EXCEPT !.op = "extend", !.index_kind = "seq", !.index = index]
    /\ result' = Ok
    /\ UNCHANGED <<_alpha, _beta, _eps, _max_priority, snapshot, collateVars>>

\* -------------------------------------------------------- update_priority
update_priority_status_longer_accepted(index_kind, index, priority_kind, priority) ==
    IF index_kind = "int"
    THEN IF priority_kind # "float" /\ Len(priority) # 1
         THEN "InvalidArgument"
         ELSE "ok"
    ELSE IF ~(priority_kind = "float" \/ Len(priority) = 1 \/ Len(index) <= Len(priority))
         THEN "InvalidArgument"
         ELSE IF Len(priority) = 0
              THEN "ValueError"
              ELSE "ok"

\* The checks of lines 272-281 and np.max over the priorities.  index_kind
\* is "int" (one slot, index = <<slot>>) or "seq"; priority_kind is "float"
\* (one number, priority = <<number>>) or "seq".
update_priority_status(index_kind, index, priority_kind, priority) ==
    IF index_kind = "int"
    THEN IF priority_kind # "float" /\ Len(priority) # 1
         THEN "InvalidArgument"     \* "priority length should be 1, got ..."
         ELSE "ok"
    ELSE IF ~(priority_kind = "float" \/ Len(priority) = 1 \/ Len(index) = Len(priority))
         THEN "InvalidArgument"     \* "priority should be a number or an iterable ..."
         ELSE IF Len(priority) = 0
              THEN "ValueError"     \* np.max of an empty array
              ELSE "ok"

new_max_priority_overwrite(max_priority, priority) == SeqMax(priority)

new_max_priority_first(max_priority, priority) == Max(max_priority, priority[1])

new_max_priority(max_priority, priority) == Max(max_priority, SeqMax(priority))

stored_priority_no_eps(priority, eps, alpha) ==
    [j \in 1..Len(priority) |-> Pow(priority[j], alpha)]

\* np.power(priority + eps, alpha), element by element.
stored_priority(priority, eps, alpha) ==
    [j \in 1..Len(priority) |-> Pow(priority[j] + eps, alpha)]

update_priority_tree_leaves_only(tree, kind, index, priority) ==
    [n \in NodeIds |->
        IF \E j \in 1..Len(index) : Capacity + index[j] = n
        THEN LET j == CHOOSE k \in 1..Len(index) :
                          /\ Capacity + index[k] = n
                          /\ \A later \in (k + 1)..Len(index) : index[later] # index[k]
             IN IF Len(priority) = 1 THEN priority[1] ELSE priority[j]
        ELSE tree[n]]

update_priority_tree_sum_only(tree, kind, index, priority) ==
    IF kind = "sum" THEN TreeSetItems(tree, kind, index, priority) ELSE tree

\* self._sum_tree[index] = priority, self._min_tree[index] = priority
update_priority_tree(tree, kind, index, priority) ==
    TreeSetItems(tree, kind, index, priority)

\* The body of update_priority, shared with mark_update.
update_priority(index_kind, index, priority_kind, priority) ==
    LET status == update_priority_status(index_kind, index, priority_kind, priority)
    IN IF status = "ok"
       THEN /\ _max_priority' = new_max_priority(_max_priority, priority)
            /\ _sum_tree' = update_priority_tree(_sum_tree, "sum", index,
                                                 stored_priority(priority, _eps, _alpha))
            /\ _min_tree' = update_priority_tree(_min_tree, "min", index,
                                                 stored_priority(priority, _eps, _alpha))
            /\ result' = Ok
       ELSE /\ UNCHANGED <<_max_priority, _sum_tree, _min_tree>>
            /\ result' = Raised(status)

UpdatePriority(index_kind, index, priority_kind, priority) ==
    /\ Idle
    /\ update_priority(index_kind, index, priority_kind, priority)
    /\ call' = [NoCall EXCEPT !.op = "update_priority",
                              !.index_kind = index_kind, !.index = index,
                              !.priority_kind = priority_kind, !.priority = priority]
    /\ UNCHANGED <<_alpha, _beta, _eps, storage_len, snapshot, collateVars>>

\* mark_update(index): update_priority(index, self.default_priority).  The
\* guard keeps _max_priority within the modelled range.
MarkUpdate(index_kind, index) ==
    /\ Idle
    /\ default_priority(_max_priority, _eps, _alpha) <= MaxPriority
    /\ update_priority(index_kind, index, "float",
                       <<default_priority(_max_priority, _eps, _alpha)>>)
    /\ call' = [NoCall EXCEPT !.op = "mark_update",
                              !.index_kind = index_kind, !.index = index,
                              !.priority_kind = "float",
                              !.priority = <<default_priority(_max_priority, _eps, _alpha)>>]
    /\ UNCHANGED <<_alpha, _beta, _eps, storage_len, snapshot, collateVars>>

\* ------------------------------------------------------------------ sample
sample_status_no_min(n, p_sum, p_min) ==
    IF n = 0 THEN "EmptyPool"
    ELSE IF p_sum <= 0 THEN "DegeneratePriorities"
    ELSE "ok"

sample_status(n, p_sum, p_min) ==
    IF n = 0 THEN "EmptyPool"                   \* "Cannot sample from an empty storage."
    ELSE IF p_sum <= 0 THEN "DegeneratePriorities"  \* "negative p_sum"
    ELSE IF p_min <= 0 THEN "DegeneratePriorities"  \* "negative p_min"
    ELSE "ok"

\* np.clip(index, None, len(storage) - 1)
clip_index(i, n) == Min(i, n - 1)

sample_index_first(sum_tree, n, mass) ==
    [j \in 1..1 |-> Min(scan_lower_bound(sum_tree, mass[j]), n - 1)]

sample_index(sum_tree, n, mass) ==
    [j \in 1..Len(mass) |-> clip_index(scan_lower_bound(sum_tree, mass[j]), n)]

importance_weight_floor(p, p_min, beta) ==
    [num |-> Pow(p_min + 1, beta), den |-> Pow(p, beta)]

importance_weight_positive_exponent(p, p_min, beta) ==
    [num |-> Pow(p, beta), den |-> Pow(p_min, beta)]

\* np.power(weight / p_min, -beta) as the fraction p_min^beta / weight^beta.
importance_weight(p, p_min, beta) == [num |-> Pow(p_min, beta), den |-> Pow(p, beta)]

sample_weight(sum_tree, index, p_min, beta) ==
    [j \in 1..Len(index) |-> importance_weight(TreeGet(sum_tree, index[j]), p_min, beta)]

\* What sample returns for the given trees, storage size and random masses.
sample_result(sum_tree, min_tree, beta, n, mass) ==
    LET p_sum == TreeQuery(sum_tree, "sum", 0, n)
        p_min == TreeQuery(min_tree, "min", 0, n)
        status == sample_status(n, p_sum, p_min)
        index == sample_index(sum_tree, n, mass)
    IN IF status = "ok"
       THEN [status |-> "ok", index |-> index,
             weight |-> sample_weight(sum_tree, index, p_min, beta)]
       ELSE Raised(status)

\* The first and the last mass of the interval of every stored slot.
MassPoints(sum_tree, n) ==
    LET p_sum == TreeQuery(sum_tree, "sum", 0, n)
    IN {m \in 0..(p_sum - 1) :
            \E i \in 0..n : m = TreeQuery(sum_tree, "sum", 0, i)
                              \/ m = TreeQuery(sum_tree, "sum", 0, i) - 1}

\* The masses a call can draw: batch_size numbers below p_sum (none when the
\* call raises before drawing).
Masses(batch_size) ==
    LET n == storage_len
        p_sum == TreeQuery(_sum_tree, "sum", 0, n)
        p_min == TreeQuery(_min_tree, "min", 0, n)
    IN IF sample_status(n, p_sum, p_min) = "ok"
       THEN [1..batch_size -> MassPoints(_sum_tree, n)]
       ELSE {<<>>}

Sample(batch_size) ==
    /\ Idle
    /\ \E mass \in Masses(batch_size) :
           result' = sample_result(_sum_tree, _min_tree, _beta, storage_len, mass)
    /\ call' = [NoCall EXCEPT !.op = "sample", !.batch_size = batch_size]
    /\ UNCHANGED <<samplerVars, storage_len, snapshot, collateVars>>

\* ------------------------------------------------------------------ _empty
\* The replay buffer's reset: it empties its storage and calls _empty,
\* which runs _init again.
Empty ==
    /\ Idle
    /\ _sum_tree' = NewTree("sum")
    /\ _min_tree' = NewTree("min")
    /\ _max_priority' = InitialMaxPriority
    /\ storage_len' = 0
    /\ call' = [NoCall EXCEPT !.op = "_empty"]
    /\ result' = Ok
    /\ UNCHANGED <<_alpha, _beta, _eps, snapshot, collateVars>>

\* ------------------------------------------- state_dict, load_state_dict
\* state_dict(): the hyperparameters, _max_priority and deep copies of the
\* two trees.
state_dict(alpha, beta, eps, max_priority, sum_tree, min_tree) ==
    [exists |-> TRUE, has_trees |-> TRUE, _alpha |-> alpha, _beta |-> beta, _eps |-> eps,
     _max_priority |-> max_priority, _sum_tree |-> sum_tree, _min_tree |-> min_tree]

StateDict ==
    /\ Idle
    /\ snapshot' = state_dict(_alpha, _beta, _eps, _max_priority, _sum_tree, _min_tree)
    /\ call' = [NoCall EXCEPT !.op = "state_dict"]
    /\ result' = Ok
    /\ UNCHANGED <<samplerVars, storage_len, collateVars>>

restored_max_priority_initial(sd) == InitialMaxPriority

restored_max_priority(sd) == sd._max_priority
restored_sum_tree(sd) == sd._sum_tree
restored_min_tree(sd) == sd._min_tree

\* state_dict.pop("_sum_tree"), pop("_min_tree"): the keys leave the dict.
popped(sd) ==
    [sd EXCEPT !.has_trees = FALSE, !._sum_tree = NewTree("sum"), !._min_tree = NewTree("min")]

\* load_state_dict(snapshot): the four scalars are assigned first; popping a
\* tree that is no longer in the dict raises KeyError after that.
LoadStateDict ==
    /\ Idle
    /\ snapshot.exists
    /\ _alpha' = snapshot._alpha
    /\ _beta' = snapshot._beta
    /\ _eps' = snapshot._eps
    /\ _max_priority' = restored_max_priority(snapshot)
    /\ IF snapshot.has_trees
       THEN /\ _sum_tree' = restored_sum_tree(snapshot)
            /\ _min_tree' = restored_min_tree(snapshot)
            /\ snapshot' = popped(snapshot)
            /\ result' = Ok
       ELSE /\ UNCHANGED <<_sum_tree, _min_tree, snapshot>>
            /\ result' = Raised("KeyError")
    /\ call' = [NoCall EXCEPT !.op = "load_state_dict"]
    /\ UNCHANGED <<storage_len, collateVars>>

\* ------------------------------------------------- buffer_collate_function
\* A stored record: the images of the state and the next state (one line
\* of pixels 0..255 each), their feature vectors (the first entry is the
\* time within the mini-race), the action id, the reward and discount of
\* every horizon 1..Horizon, the number of valid steps and the steps left to
\* the end of the episode.
RewardsRow == [h \in 1..Horizon |-> 100 + h]
GammasRow == [h \in 1..Horizon |-> Horizon + 1 - h]

\* Records that differ in their horizon fields; their images, features and
\* action are the same whether mirrored or not.
Records ==
    [n_steps : (0 - 1)..Horizon,
     terminal_actions : 1..(Horizon + 1),
     rewards : {RewardsRow},
     gammas : {GammasRow},
     action : {0},
     state_img : {<<128, 128>>},
     next_state_img : {<<128, 128>>},
     state_float : {<<0, 0, 0, 0, 0>>},
     next_state_float : {<<0, 0, 0, 0, 0>>}]

Batches == UNION {[1..k -> Records] : k \in CollateSizes}

\* Records that differ in what the augmentations act on: every action id,
\* images and features that change when mirrored.
Actions == 0..11

AugmentRecords ==
    [n_steps : {1},
     terminal_actions : {2},
     rewards : {RewardsRow},
     gammas : {GammasRow},
     action : Actions,
     state_img : {<<0, 255>>, <<200, 100>>},
     next_state_img : {<<10, 20>>},
     state_float : {<<0, 1, 2, 3, 4>>, <<0, 2, 2, 0 - 3, 0>>},
     next_state_float : {<<0, 5, 6, 7, 8>>}]

\* One such record, or one followed by a fixed second record.
AugmentBatches ==
    {<<r>> : r \in AugmentRecords}
        \cup {<<r, [n_steps |-> 1, terminal_actions |-> 2,
                    rewards |-> RewardsRow, gammas |-> GammasRow,
                    action |-> 4, state_img |-> <<30, 40>>,
                    next_state_img |-> <<50, 60>>,
                    state_float |-> <<0, 1, 0 - 2, 3, 4>>,
                    next_state_float |-> <<0, 0 - 5, 6, 7, 8>>]>> : r \in AugmentRecords}

\* What a call returns: the tensors (rows) and, with them, no
\* synchronisation object (completion_event = "none").
NotCollated ==
    [status |-> "none", current_time |-> <<>>, rows |-> <<>>, completion_event |-> "none"]

\* x.clip(min=0)
clip_min_0(x) == IF x < 0 THEN 0 ELSE x

possibly_reduced_n_steps_unclipped(n_steps, next_time) ==
    n_steps - (next_time - MiniRaceDuration)

possibly_reduced_n_steps(n_steps, next_time) ==
    n_steps - clip_min_0(next_time - MiniRaceDuration)

terminal(reduced_n_steps, terminal_actions, next_time) ==
    reduced_n_steps >= terminal_actions \/ next_time >= MiniRaceDuration

\* np.take_along_axis on one row, index counted from 0: an index in
\* -len..-1 counts from the end of the row, any other index outside
\* 0..len-1 raises IndexError.
take_in_range(row, i) == 0 - Len(row) <= i /\ i < Len(row)
take_along_axis(row, i) == IF i >= 0 THEN row[i + 1] ELSE row[Len(row) + i + 1]

\* (img.to(float16) - 128) / 128, exact for pixels 0..255: the fraction
\* (pixel - 128) / 128.
normalize_img(img) == [x \in 1..Len(img) |-> [num |-> img[x] - 128, den |-> 128]]

\* One row of the batch for the drawn time current_time, before the
\* augmentations.
collate_row(record, current_time) ==
    LET next_time == current_time + record.n_steps
        reduced == possibly_reduced_n_steps(record.n_steps, next_time)
        is_terminal == terminal(reduced, record.terminal_actions, next_time)
    IN [state_img |-> normalize_img(record.state_img),
        state_float |-> [record.state_float EXCEPT ![1] = current_time],
        action |-> record.action,
        rewards |-> take_along_axis(record.rewards, reduced - 1),
        next_state_img |-> normalize_img(record.next_state_img),
        next_state_float |-> [record.next_state_float EXCEPT ![1] = next_time],
        gammas |-> IF is_terminal THEN 0 ELSE take_along_axis(record.gammas, reduced - 1)]

gather_index(record, current_time) ==
    possibly_reduced_n_steps(record.n_steps, current_time + record.n_steps) - 1

\* ---- the augmentations
\* The settings of the configuration module: the margin of the random crop
\* and the places of the feature vector the mirror image exchanges or
\* negates.  Places count from 1 here: place 1 is the time feature, places
\* 2 and 3 are a left / right pair, place 4 is a signed lateral quantity,
\* place 5 is untouched.
n_pixels_to_crop_on_each_side == 1
flip_indices_floats_before_swap == <<2, 3>>
flip_indices_floats_after_swap == <<3, 2>>
indices_floats_sign_inversion == {4}

\* pad(img, padding, padding_mode="edge") and crop(img, i, j, H, W) on a
\* line of pixels: the line is lengthened by copies of its end pixels and
\* cut at column j to its former width (the row offset i moves nothing in
\* an image of one line, every padded line being a copy of it).
pad_edge(img, padding) ==
    [x \in 1..(Len(img) + 2 * padding) |-> img[Max(1, Min(Len(img), x - padding))]]
crop(img, j, width) == [x \in 1..width |-> img[j + x]]

random_crop(row, j) ==
    [row EXCEPT
        !.state_img = crop(pad_edge(@, n_pixels_to_crop_on_each_side), j, Len(@)),
        !.next_state_img = crop(pad_edge(@, n_pixels_to_crop_on_each_side), j, Len(@))]

\* torch.flip(img, dims=(-1,))
flip(img) == [x \in 1..Len(img) |-> img[Len(img) + 1 - x]]

action_flipped_misprint == <<0, 2, 1, 3, 5, 4, 6, 8, 7, 9, 11, 11>>

action_flipped == <<0, 2, 1, 3, 5, 4, 6, 8, 7, 9, 11, 10>>

\* torch.gather(action_flipped, 0, action)
gather_action(action) == action_flipped[action + 1]

\* float_inputs_horizontal_symmetry: in a copy of the features the places
\* before_swap receive what the places after_swap held (the right-hand side
\* is read out before anything is written), then the sign-inversion places
\* are multiplied by -1.
float_inputs_horizontal_symmetry(floats) ==
    LET swapped ==
            [k \in 1..Len(floats) |->
                IF \E m \in 1..Len(flip_indices_floats_before_swap) :
                       flip_indices_floats_before_swap[m] = k
                THEN floats[flip_indices_floats_after_swap[
                         CHOOSE m \in 1..Len(flip_indices_floats_before_swap) :
                             flip_indices_floats_before_swap[m] = k]]
                ELSE floats[k]]
    IN [k \in 1..Len(floats) |->
           IF k \in indices_floats_sign_inversion THEN 0 - swapped[k] ELSE swapped[k]]

horizontal_flip_next_state_float_kept(row, use_horizontal_flip) ==
    IF use_horizontal_flip
    THEN [row EXCEPT !.state_img = flip(@),
                     !.next_state_img = flip(@),
                     !.action = gather_action(@),
                     !.state_float = float_inputs_horizontal_symmetry(@)]
    ELSE row

\* The five torch.where(use_horizontal_flip, ..., ...) of one record.
horizontal_flip(row, use_horizontal_flip) ==
    IF use_horizontal_flip
    THEN [row EXCEPT !.state_img = flip(@),
                     !.next_state_img = flip(@),
                     !.action = gather_action(@),
                     !.state_float = float_inputs_horizontal_symmetry(@),
                     !.next_state_float = float_inputs_horizontal_symmetry(@)]
    ELSE row

\* One row of the batch after the augmentations that are switched on.
augment_row(row, settings, j, use_horizontal_flip) ==
    LET cropped == IF settings.apply_randomcrop_augmentation
                   THEN random_crop(row, j)
                   ELSE row
    IN IF settings.apply_horizontal_flip_augmentation
       THEN horizontal_flip(cropped, use_horizontal_flip)
       ELSE cropped

\* The whole function: the gather raises IndexError before anything is
\* sent to the accelerator; the tuple returned holds the seven tensors and
\* nothing else.
buffer_collate_function(records, settings, current_time, j, use_horizontal_flip) ==
    IF \A r \in 1..Len(records) :
           take_in_range(records[r].rewards, gather_index(records[r], current_time[r]))
    THEN [status |-> "ok", current_time |-> current_time,
          rows |-> [r \in 1..Len(records) |->
                       augment_row(collate_row(records[r], current_time[r]),
                                   settings, j, use_horizontal_flip[r])],
          completion_event |-> "none"]
    ELSE [status |-> "IndexError", current_time |-> current_time, rows |-> <<>>,
          completion_event |-> "none"]

temporal_mini_race_current_time_actions_inclusive == 0..MiniRaceDuration

\* np.random.randint(low=0, high=duration): high is exclusive.
temporal_mini_race_current_time_actions == 0..(MiniRaceDuration - 1)

\* random.randint(0, 2 * margin), drawn only when the crop is switched on.
crop_offsets(settings) ==
    IF settings.apply_randomcrop_augmentation
    THEN 0..(2 * n_pixels_to_crop_on_each_side)
    ELSE {0}

\* torch.rand(len) < ratio, drawn only when the flip is switched on.
flip_flags(settings, len) ==
    IF settings.apply_horizontal_flip_augmentation
    THEN [1..len -> BOOLEAN]
    ELSE {[r \in 1..len |-> FALSE]}

\* One call of the collate function on the batch, with the times, the crop
\* offset and the flip flags it draws.  The copies to the accelerator are
\* issued with non_blocking=True from pinned memory: the call returns while
\* they are pending.
Collate ==
    /\ collated = NotCollated
    /\ \E current_time \in [1..Len(batch) -> temporal_mini_race_current_time_actions],
          j \in crop_offsets(misc),
          use_horizontal_flip \in flip_flags(misc, Len(batch)) :
           collated' = buffer_collate_function(batch, misc, current_time, j,
                                               use_horizontal_flip)
    /\ transfer' = IF collated'.status = "ok" THEN "pending" ELSE "none"
    /\ UNCHANGED <<samplerVars, storage_len, snapshot, call, result, batch, misc, consumer>>

\* The accelerator finishes the copies of the batch.
CompleteTransfer ==
    /\ transfer = "pending"
    /\ transfer' = "done"
    /\ UNCHANGED <<samplerVars, storage_len, snapshot, call, result, batch, collated,
                   misc, consumer>>

\* What a read of the batch finds: its contents once the copies are done;
\* while they are pending the read races with them and finds the contents
\* or whatever the accelerator memory held.
read_outcomes(transfer_state) ==
    IF transfer_state = "done" THEN {"batch"} ELSE {"batch", "undefined"}

\* The training step reads the batch.  It waits for the completion event of
\* the call when the call returned one.
ConsumerRead ==
    /\ collated.status = "ok"
    /\ consumer = "none"
    /\ collated.completion_event # "none" => transfer = "done"
    /\ \E outcome \in read_outcomes(transfer) : consumer' = outcome
    /\ UNCHANGED <<samplerVars, storage_len, snapshot, call, result, batch, collated,
                   misc, transfer>>

\* ------------------------------------------------------------------ caller
\* The caller takes the result; the next call starts from the idle state.
Return ==
    /\ ~Idle
    /\ call' = NoCall
    /\ result' = Ok
    /\ UNCHANGED <<samplerVars, storage_len, snapshot, collateVars>>

\* --------------------------------------------------------- specifications
\* The arguments of update_priority and mark_update: one slot or a sequence
\* of slots, one priority or a sequence of priorities (an empty one too).
IndexArgs ==
    {<<"int", index>> : index \in [1..1 -> Slots]}
        \cup {<<"seq", index>> : index \in UNION {[1..n -> Slots] : n \in UpdateLengths}}
PriorityArgs ==
    {<<"float", priority>> : priority \in [1..1 -> RawPriorities]}
        \cup {<<"seq", priority>> :
                  priority \in UNION {[1..n -> RawPriorities] : n \in UpdateLengths \cup {0}}}

NoAugmentation ==
    [apply_randomcrop_augmentation |-> FALSE, apply_horizontal_flip_augmentation |-> FALSE]

Init ==
    /\ SamplerInit
    /\ batch = <<>>
    /\ collated = NotCollated
    /\ misc = NoAugmentation
    /\ transfer = "none"
    /\ consumer = "none"

\* The sampler in use: insertion, priority updates and sampling.
Next ==
    \/ \E i \in Slots : Add(i)
    \/ \E index \in SeqsOf(Slots, 1, MaxBatch) : Extend(index)
    \/ \E ia \in IndexArgs, pa \in PriorityArgs : UpdatePriority(ia[1], ia[2], pa[1], pa[2])
    \/ \E ia \in IndexArgs : MarkUpdate(ia[1], ia[2])
    \/ \E batch_size \in 1..MaxBatch : Sample(batch_size)
    \/ Empty
    \/ Return

Spec == Init /\ [][Next]_vars

\* Checkpointing: the sampler is filled by add and single-slot priority
\* updates (with the smallest or the largest raw priority), saved, changed
\* or reset, and restored.
NextSnapshot ==
    \/ \E i \in Slots : Add(i)
    \/ \E i \in Slots, p \in {0, MaxPriority} : UpdatePriority("int", <<i>>, "float", <<p>>)
    \/ Empty
    \/ StateDict
    \/ LoadStateDict
    \/ Return

SpecSnapshot == Init /\ [][NextSnapshot]_vars

\* Collation: any batch of one or two records, collated once with the
\* augmentations switched off.
InitCollate ==
    /\ SamplerInit
    /\ _alpha = 1
    /\ _beta = 0
    /\ _eps = 0
    /\ batch \in Batches
    /\ collated = NotCollated
    /\ misc = NoAugmentation
    /\ transfer = "none"
    /\ consumer = "none"

NextCollate == Collate

SpecCollate == InitCollate /\ [][NextCollate]_vars

\* Augmentation and transfer: a batch of records that change when
\* mirrored, under every setting of the two augmentation switches, collated
\* once, copied to the accelerator and read by the training step.
InitAugment ==
    /\ SamplerInit
    /\ _alpha = 1
    /\ _beta = 0
    /\ _eps = 0
    /\ batch \in AugmentBatches
    /\ collated = NotCollated
    /\ misc \in [apply_randomcrop_augmentation : BOOLEAN,
                  apply_horizontal_flip_augmentation : BOOLEAN]
    /\ transfer = "none"
    /\ consumer = "none"

NextAugment ==
    \/ Collate
    \/ CompleteTransfer
    \/ ConsumerRead

SpecAugment == InitAugment /\ [][NextAugment]_vars

\* ------------------------------------------------------------------ claims
StoredSlots == 0..(storage_len - 1)
SameWeight(a, b) == a.num * b.den = b.num * a.den

\* C1: across add, extend, update_priority, mark_update and sample calls
\* _max_priority never decreases from one step to the next.
C1_MaxPriorityNeverDecreases ==
    [][call'.op \in {"add", "extend", "update_priority", "mark_update", "sample"}
           => _max_priority' >= _max_priority]_vars

\* An update with priorities below the running maximum was made and the
\* maximum stayed above its initial value.
C1_Witness ==
    /\ call.op = "update_priority"
    /\ result.status = "ok"
    /\ SeqMax(call.priority) < _max_priority
    /\ _max_priority > InitialMaxPriority

\* C2 as stated: an update_priority call with as many priorities as slots
\* sets _max_priority to max(old, max(raw)) and leaves every given slot with
\* (raw + eps)^alpha of the priority paired with it, in both trees; the other
\* slots keep their values.
C2_Original ==
    [][(/\ call'.op = "update_priority"
        /\ result'.status = "ok"
        /\ Len(call'.index) = Len(call'.priority))
           => /\ _max_priority' = Max(_max_priority, SeqMax(call'.priority))
              /\ \A j \in 1..Len(call'.index) :
                     /\ TreeGet(_sum_tree', call'.index[j]) = (call'.priority[j] + _eps) ^ _alpha
                     /\ TreeGet(_min_tree', call'.index[j]) = (call'.priority[j] + _eps) ^ _alpha
              /\ \A s \in Slots \ Range(call'.index) :
                     /\ TreeGet(_sum_tree', s) = TreeGet(_sum_tree, s)
                     /\ TreeGet(_min_tree', s) = TreeGet(_min_tree, s)]_vars

\* C2 amended: the same, where a slot named several times in one call ends
\* with (raw + eps)^alpha of the last priority paired with it.
C2_UpdateWritesLastPair ==
    [][(/\ call'.op = "update_priority"
        /\ result'.status = "ok"
        /\ Len(call'.index) = Len(call'.priority))
           => /\ _max_priority' = Max(_max_priority, SeqMax(call'.priority))
              /\ \A j \in 1..Len(call'.index) :
                     (\A later \in (j + 1)..Len(call'.index) : call'.index[later] # call'.index[j])
                         => /\ TreeGet(_sum_tree', call'.index[j])
                                   = (call'.priority[j] + _eps) ^ _alpha
                            /\ TreeGet(_min_tree', call'.index[j])
                                   = (call'.priority[j] + _eps) ^ _alpha
              /\ \A s \in Slots \ Range(call'.index) :
                     /\ TreeGet(_sum_tree', s) = TreeGet(_sum_tree, s)
                     /\ TreeGet(_min_tree', s) = TreeGet(_min_tree, s)]_vars

\* One call named the same slot twice with two different priorities.
C2_Witness ==
    /\ call.op = "update_priority"
    /\ result.status = "ok"
    /\ Len(call.index) = 2
    /\ Len(call.priority) = 2
    /\ call.index[1] = call.index[2]
    /\ call.priority[1] > call.priority[2]
    /\ TreeGet(_sum_tree, call.index[2]) = (call.priority[2] + _eps) ^ _alpha

\* C3: add / extend write (_max_priority + eps)^alpha, from the
\* _max_priority current at the call, into the given slots of both trees and
\* leave _max_priority and every other slot unchanged.
C3_InsertDefault ==
    [][call'.op \in {"add", "extend"}
           => /\ \A s \in Range(call'.index) :
                     /\ TreeGet(_sum_tree', s) = (_max_priority + _eps) ^ _alpha
                     /\ TreeGet(_min_tree', s) = (_max_priority + _eps) ^ _alpha
              /\ _max_priority' = _max_priority
              /\ \A s \in Slots \ Range(call'.index) :
                     /\ TreeGet(_sum_tree', s) = TreeGet(_sum_tree, s)
                     /\ TreeGet(_min_tree', s) = TreeGet(_min_tree, s)]_vars

\* extend wrote two slots after _max_priority had grown, with eps > 0.
C3_Witness ==
    /\ call.op = "extend"
    /\ Len(call.index) = 2
    /\ call.index[1] # call.index[2]
    /\ _max_priority > InitialMaxPriority
    /\ _eps > 0
    /\ TreeGet(_sum_tree, call.index[1]) = (_max_priority + _eps) ^ _alpha

\* C4: a successful sample(batch_size = k) returns exactly k indices and k
\* weights, every index i with 0 <= i < number of stored records, every
\* weight finite and >= 0.
C4_SampleShape ==
    (call.op = "sample" /\ result.status = "ok")
        => /\ Len(result.index) = call.batch_size
           /\ Len(result.weight) = call.batch_size
           /\ \A j \in 1..Len(result.index) :
                  /\ 0 <= result.index[j]
                  /\ result.index[j] < storage_len
                  /\ result.index[j] < MaxCapacity
           /\ \A j \in 1..Len(result.weight) :
                  /\ result.weight[j].den > 0
                  /\ result.weight[j].num >= 0

\* A batch of two drew two different slots with two different weights.
C4_Witness ==
    /\ call.op = "sample"
    /\ result.status = "ok"
    /\ call.batch_size = 2
    /\ result.index[1] # result.index[2]
    /\ ~SameWeight(result.weight[1], result.weight[2])

\* C5 as stated: sample fails with EmptyPool whenever the sum tree has zero
\* total mass (over the stored slots), and otherwise with DegeneratePriorities whenever the sum or
\* the min over the stored slots is non-positive; a failure returns nothing.
C5_Original ==
    call.op = "sample"
        => /\ IF TreeQuery(_sum_tree, "sum", 0, storage_len) = 0
              THEN result.status = "EmptyPool"
              ELSE (\/ TreeQuery(_sum_tree, "sum", 0, storage_len) <= 0
                    \/ TreeQuery(_min_tree, "min", 0, storage_len) <= 0)
                       => result.status = "DegeneratePriorities"
           /\ result.status # "ok" => result.index = <<>> /\ result.weight = <<>>

\* C5 amended: sample fails with EmptyPool whenever the storage holds no
\* record, and otherwise with DegeneratePriorities whenever the sum or the
\* min over the stored slots is non-positive (zero total mass included); a
\* failure returns no indices or weights, and sample never changes the
\* sampler.
C5_SampleFailures ==
    [][call'.op = "sample"
           => /\ IF storage_len = 0
                 THEN result'.status = "EmptyPool"
                 ELSE IF \/ TreeQuery(_sum_tree, "sum", 0, storage_len) <= 0
                         \/ TreeQuery(_min_tree, "min", 0, storage_len) <= 0
                      THEN result'.status = "DegeneratePriorities"
                      ELSE result'.status = "ok"
              /\ result'.status # "ok" => result'.index = <<>> /\ result'.weight = <<>>
              /\ UNCHANGED <<samplerVars, storage_len>>]_vars

\* Records are stored, all with priority zero: the call fails with
\* DegeneratePriorities although the total mass is zero.
C5_Witness ==
    /\ call.op = "sample"
    /\ storage_len > 0
    /\ TreeQuery(_sum_tree, "sum", 0, storage_len) = 0
    /\ result.status = "DegeneratePriorities"

\* C6 as stated: update_priority fails with InvalidArgument whenever slots
\* and priorities are both sequences and their lengths differ.
C6_Original ==
    (/\ call.op = "update_priority"
     /\ call.index_kind = "seq"
     /\ call.priority_kind = "seq"
     /\ Len(call.index) # Len(call.priority))
        => result.status = "InvalidArgument"

\* C6 amended: update_priority fails with InvalidArgument whenever slots
\* and priorities are both sequences, their lengths differ and the priority
\* sequence does not hold exactly one element (which is broadcast); the
\* failure leaves _max_priority and both trees as they were.
C6_LengthMismatchRejected ==
    [][(/\ call'.op = "update_priority"
        /\ call'.index_kind = "seq"
        /\ call'.priority_kind = "seq"
        /\ Len(call'.index) # Len(call'.priority)
        /\ Len(call'.priority) # 1)
           => /\ result'.status = "InvalidArgument"
              /\ UNCHANGED samplerVars]_vars

\* A call with one slot and two priorities failed, on a sampler that holds
\* priorities.
C6_Witness ==
    /\ call.op = "update_priority"
    /\ call.index_kind = "seq"
    /\ call.priority_kind = "seq"
    /\ Len(call.index) = 1
    /\ Len(call.priority) = 2
    /\ call.priority[2] > _max_priority
    /\ result.status = "InvalidArgument"
    /\ _sum_tree[1] > 0

\* C7: load_state_dict(state_dict()) gives back the sampler that was saved:
\* state_dict records alpha, beta, eps, _max_priority and both trees as they
\* are, nothing but load_state_dict touches the record afterwards, and a
\* successful load_state_dict makes the sampler equal to the record, leaves
\* and aggregates, so that sample with the same random masses returns the
\* same indices and weights.
C7_RoundTrip ==
    [][/\ call'.op = "state_dict"
           => snapshot' = [exists |-> TRUE, has_trees |-> TRUE,
                           _alpha |-> _alpha, _beta |-> _beta, _eps |-> _eps,
                           _max_priority |-> _max_priority,
                           _sum_tree |-> _sum_tree, _min_tree |-> _min_tree]
       /\ call'.op \notin {"state_dict", "load_state_dict"} => snapshot' = snapshot
       /\ (call'.op = "load_state_dict" /\ result'.status = "ok")
           => /\ _alpha' = snapshot._alpha
              /\ _beta' = snapshot._beta
              /\ _eps' = snapshot._eps
              /\ _max_priority' = snapshot._max_priority
              /\ _sum_tree' = snapshot._sum_tree
              /\ _min_tree' = snapshot._min_tree
              /\ \A n \in 0..MaxCapacity, mass \in [1..1 -> 0..MaxPriority] :
                     sample_result(_sum_tree', _min_tree', _beta', n, mass)
                         = sample_result(snapshot._sum_tree, snapshot._min_tree,
                                         snapshot._beta, n, mass)]_vars

\* A snapshot that holds raised priorities was restored into the sampler.
C7_Witness ==
    /\ call.op = "load_state_dict"
    /\ result.status = "ok"
    /\ _max_priority > InitialMaxPriority
    /\ TreeGet(_sum_tree, 0) > 0
    /\ TreeGet(_sum_tree, 0) # TreeGet(_sum_tree, 1)

\* The weight sample returns for slot i of the present sampler, and of the
\* sampler whose slots were updated with c times the raw priorities of the
\* last update_priority call.
CurrentWeight(i) ==
    sample_weight(_sum_tree, <<i>>, TreeQuery(_min_tree, "min", 0, storage_len), _beta)[1]

ScaledWeight(c, i) ==
    LET scaled == [j \in 1..Len(call.priority) |-> c * call.priority[j]]
        sum_tree == update_priority_tree(NewTree("sum"), "sum", call.index,
                                         stored_priority(scaled, _eps, _alpha))
        min_tree == update_priority_tree(NewTree("min"), "min", call.index,
                                         stored_priority(scaled, _eps, _alpha))
    IN sample_weight(sum_tree, <<i>>, TreeQuery(min_tree, "min", 0, storage_len), _beta)[1]

\* Every stored slot holds the priority the last update_priority call gave
\* it, and sample succeeds.
AllStoredUpdated ==
    /\ call.op = "update_priority"
    /\ result.status = "ok"
    /\ Len(call.index) = Len(call.priority)
    /\ storage_len > 0
    /\ Range(call.index) = StoredSlots
    /\ sample_status(storage_len, TreeQuery(_sum_tree, "sum", 0, storage_len),
                     TreeQuery(_min_tree, "min", 0, storage_len)) = "ok"

\* C8 as stated: the weights are invariant to a uniform positive rescaling
\* of all raw priorities.
C8_Original ==
    AllStoredUpdated
        => \A c \in 1..MaxScale, i \in StoredSlots :
               SameWeight(CurrentWeight(i), ScaledWeight(c, i))

\* C8 amended: with eps = 0 the weights are invariant to a uniform positive
\* rescaling of all raw priorities.
C8_ScaleInvariantWithoutEps ==
    (AllStoredUpdated /\ _eps = 0)
        => \A c \in 1..MaxScale, i \in StoredSlots :
               SameWeight(CurrentWeight(i), ScaledWeight(c, i))

\* Two stored slots were updated with different priorities, eps = 0 and
\* beta > 0, so the weights differ from slot to slot.
C8_Witness ==
    /\ AllStoredUpdated
    /\ _eps = 0
    /\ _beta > 0
    /\ storage_len = 2
    /\ ~SameWeight(CurrentWeight(0), CurrentWeight(1))

\* C9: for every record with n_steps >= 1 and every drawn t_cur in
\* [0, mini_race_duration): t_next = t_cur + n_steps, effective_steps =
\* n_steps - max(0, t_next - mini_race_duration), is_terminal =
\* (effective_steps >= terminal_actions) or (t_next >= mini_race_duration),
\* reward = rewards[effective_steps - 1], gamma = 0 if is_terminal else
\* gammas[effective_steps - 1], and the first feature of state / next state
\* is t_cur / t_next.
C9_CollateRow ==
    collated.status = "ok"
        => \A r \in 1..Len(batch) :
               batch[r].n_steps >= 1
                   => LET t_cur == collated.current_time[r]
                          t_next == t_cur + batch[r].n_steps
                          effective_steps ==
                              batch[r].n_steps - Max(0, t_next - MiniRaceDuration)
                          is_terminal ==
                              \/ effective_steps >= batch[r].terminal_actions
                              \/ t_next >= MiniRaceDuration
                      IN /\ t_cur \in 0..(MiniRaceDuration - 1)
                         /\ collated.rows[r].rewards = batch[r].rewards[effective_steps]
                         /\ collated.rows[r].gammas
                                = IF is_terminal THEN 0 ELSE batch[r].gammas[effective_steps]
                         /\ collated.rows[r].state_float[1] = t_cur
                         /\ collated.rows[r].next_state_float[1] = t_next

\* The scenario n_steps = 5, terminal_actions = 3, duration 10, t_cur = 8:
\* two effective steps, terminal, gamma 0 and the reward of horizon 2; beside
\* it a record that is not terminal and keeps its discount.
C9_Witness ==
    /\ collated.status = "ok"
    /\ Len(batch) = 2
    /\ batch[1].n_steps = 5
    /\ batch[1].terminal_actions = 3
    /\ MiniRaceDuration = 10
    /\ collated.current_time[1] = 8
    /\ collated.rows[1].next_state_float[1] = 13
    /\ collated.rows[1].gammas = 0
    /\ collated.rows[1].rewards = batch[1].rewards[2]
    /\ batch[2].n_steps = 2
    /\ batch[2].terminal_actions = 3
    /\ collated.current_time[2] = 1
    /\ collated.rows[2].gammas = batch[2].gammas[2]
    /\ collated.rows[2].rewards = batch[2].rewards[2]

\* C10: collation of a batch that holds a record with n_steps <= 0 fails
\* with InvalidRecord and returns no batch.
C10_NonPositiveStepsRejected ==
    (/\ collated # NotCollated
     /\ \E r \in 1..Len(batch) : batch[r].n_steps <= 0)
        => /\ collated.status = "InvalidRecord"
           /\ collated.rows = <<>>

\* The sum and the minimum of the leaves of a tree, leaf by leaf.
RECURSIVE LeafSum(_, _)
LeafSum(tree, n) == IF n = 0 THEN 0 ELSE TreeGet(tree, n - 1) + LeafSum(tree, n - 1)

RECURSIVE LeafMin(_, _)
LeafMin(tree, n) == IF n = 0 THEN Inf ELSE Min(TreeGet(tree, n - 1), LeafMin(tree, n - 1))

\* C13: after every add, extend, update_priority and mark_update call every
\* internal node of the sum tree is the sum of its two children and every
\* internal node of the min tree the minimum of its two children, so the
\* root of the sum tree is the sum of the leaves and the root of the min
\* tree their minimum.
C13_TreeAggregates ==
    /\ \A n \in 1..(Capacity - 1) :
           /\ _sum_tree[n] = _sum_tree[2 * n] + _sum_tree[2 * n + 1]
           /\ _min_tree[n] = Min(_min_tree[2 * n], _min_tree[2 * n + 1])
    /\ _sum_tree[1] = LeafSum(_sum_tree, Capacity)
    /\ _min_tree[1] = LeafMin(_min_tree, Capacity)

\* One update_priority call wrote two different priorities to two slots
\* that held other values: the roots are their sum and their minimum.
C13_Witness ==
    /\ call.op = "update_priority"
    /\ result.status = "ok"
    /\ Len(call.index) = 2
    /\ call.index[1] # call.index[2]
    /\ TreeGet(_sum_tree, call.index[1]) > TreeGet(_sum_tree, call.index[2])
    /\ TreeGet(_sum_tree, call.index[2]) > 0
    /\ _sum_tree[1] >= TreeGet(_sum_tree, call.index[1]) + TreeGet(_sum_tree, call.index[2])
    /\ _min_tree[1] = TreeGet(_min_tree, call.index[2])

\* C15: every weight returned by a successful sample lies in (0, 1], the
\* sampled slot's priority being at least the minimum it is divided by; with
\* beta = 0 every weight is exactly 1.
C15_WeightInUnitInterval ==
    (call.op = "sample" /\ result.status = "ok")
        => \A j \in 1..Len(result.weight) :
               /\ result.weight[j].num > 0
               /\ result.weight[j].den > 0
               /\ result.weight[j].num <= result.weight[j].den
               /\ TreeGet(_sum_tree, result.index[j])
                      >= TreeQuery(_min_tree, "min", 0, storage_len)
               /\ _beta = 0 => result.weight[j].num = result.weight[j].den

\* With beta > 0 a batch of two drew the slot of the smallest priority
\* (weight 1) and a slot of a larger priority (weight below 1).
C15_Witness ==
    /\ call.op = "sample"
    /\ result.status = "ok"
    /\ _beta > 0
    /\ call.batch_size = 2
    /\ result.weight[1].num = result.weight[1].den
    /\ result.weight[2].num < result.weight[2].den
    /\ TreeGet(_sum_tree, result.index[2]) > TreeGet(_sum_tree, result.index[1])

\* C16: mark_update(slot) does what add(slot) does: afterwards the slot
\* holds (m + eps)^alpha in both trees, m being _max_priority before the
\* call, and _max_priority is unchanged.
C16_MarkUpdateIsInsertDefault ==
    [][(call'.op = "mark_update" /\ result'.status = "ok")
           => /\ \A s \in Range(call'.index) :
                     /\ TreeGet(_sum_tree', s) = Pow(_max_priority + _eps, _alpha)
                     /\ TreeGet(_min_tree', s) = Pow(_max_priority + _eps, _alpha)
              /\ _max_priority' = _max_priority]_vars

\* C17: a snapshot is an immutable value: no call other than the state_dict
\* that builds it changes the snapshot, load_state_dict included, so every
\* load_state_dict of a snapshot, the second like the first, succeeds and
\* leaves the sampler equal to what the snapshot held when it was taken.
C17_SnapshotImmutable ==
    [][/\ call'.op # "state_dict" => snapshot' = snapshot
       /\ call'.op = "load_state_dict"
           => /\ result'.status = "ok"
              /\ _max_priority' = snapshot._max_priority
              /\ _sum_tree' = snapshot._sum_tree
              /\ _min_tree' = snapshot._min_tree]_vars

\* C18: for every record with 1 <= n_steps <= H and every drawn t_cur in
\* [0, mini_race_duration) the truncated horizon is at least 1 and at most
\* n_steps, so the index effective_steps - 1 of the reward and the discount
\* is within 0..H-1, never negative.
C18_EffectiveStepsInRange ==
    collated.status = "ok"
        => \A r \in 1..Len(batch) :
               (1 <= batch[r].n_steps /\ batch[r].n_steps <= Len(batch[r].rewards))
                   => LET t_cur == collated.current_time[r]
                          effective_steps ==
                              possibly_reduced_n_steps(batch[r].n_steps,
                                                       t_cur + batch[r].n_steps)
                      IN /\ 1 <= effective_steps
                         /\ effective_steps <= batch[r].n_steps
                         /\ gather_index(batch[r], t_cur) >= 0
                         /\ gather_index(batch[r], t_cur) < Len(batch[r].rewards)
                         /\ gather_index(batch[r], t_cur) < Len(batch[r].gammas)

\* The longest horizon drawn at the last time of the window is cut down to
\* one step; beside it a record whose horizon is not cut.
C18_Witness ==
    /\ collated.status = "ok"
    /\ Len(batch) = 2
    /\ batch[1].n_steps = Horizon
    /\ collated.current_time[1] = MiniRaceDuration - 1
    /\ gather_index(batch[1], collated.current_time[1]) = 0
    /\ collated.rows[1].rewards = batch[1].rewards[1]
    /\ batch[2].n_steps = Horizon
    /\ collated.current_time[2] = 0
    /\ gather_index(batch[2], collated.current_time[2]) = Horizon - 1

\* The slots a priority was written to since the trees were created.
WrittenSlots == {s \in Slots : TreeGet(_min_tree, s) # Inf}

\* C19: after every add, extend, update_priority and mark_update call every
\* priority stored in the trees is at most the default priority
\* (_max_priority + eps)^alpha, so the slots add / extend write receive a
\* priority at least as large as that of every written slot.
C19_StoredAtMostDefault ==
    [][/\ \A s \in Slots :
              TreeGet(_sum_tree', s) <= default_priority(_max_priority', _eps', _alpha')
       /\ \A s \in WrittenSlots' :
              TreeGet(_min_tree', s) <= default_priority(_max_priority', _eps', _alpha')
       /\ call'.op \in {"add", "extend"}
           => \A s \in Range(call'.index), t \in WrittenSlots' :
                  /\ TreeGet(_sum_tree', s) >= TreeGet(_sum_tree', t)
                  /\ TreeGet(_min_tree', s) >= TreeGet(_min_tree', t)]_vars

\* add wrote a slot after an update_priority call had raised _max_priority
\* with one slot and given a smaller priority to another.
C19_Witness ==
    /\ call.op = "add"
    /\ _max_priority > InitialMaxPriority
    /\ \E t \in WrittenSlots :
           /\ TreeGet(_sum_tree, t) > 0
           /\ TreeGet(_sum_tree, t) < TreeGet(_sum_tree, call.index[1])
    /\ TreeGet(_sum_tree, call.index[1]) = default_priority(_max_priority, _eps, _alpha)

\* C20: after every add, extend, update_priority, mark_update and _empty
\* call the sum tree and the min tree hold the same value at every slot
\* written since the trees were created, and both are still empty at every
\* other slot: the two trees are never out of step.
C20_TreesInStep ==
    /\ \A s \in WrittenSlots : TreeGet(_sum_tree, s) = TreeGet(_min_tree, s)
    /\ \A s \in Slots \ WrittenSlots :
           /\ TreeGet(_sum_tree, s) = Identity("sum")
           /\ TreeGet(_min_tree, s) = Identity("min")

\* mark_update rewrote one of two written slots: the slots hold different
\* priorities, each the same in both trees.
C20_Witness ==
    /\ call.op = "mark_update"
    /\ result.status = "ok"
    /\ WrittenSlots = {0, 1}
    /\ TreeGet(_sum_tree, 0) # TreeGet(_sum_tree, 1)
    /\ TreeGet(_min_tree, 0) = TreeGet(_sum_tree, 0)
    /\ TreeGet(_min_tree, 1) = TreeGet(_sum_tree, 1)
    /\ TreeGet(_min_tree, 0) > 0
    /\ TreeGet(_min_tree, 1) > 0

\* C11: the horizontal flip is an involution on the labels: the action
\* table applied twice returns every action id 0..11 (1 -> 2 -> 1, 3 -> 3),
\* and float_inputs_horizontal_symmetry applied twice returns the feature
\* vector, so that flipping a collated row twice with the same flag gives
\* the row back, images included.
C11_FlipInvolution ==
    collated.status = "ok"
        => \A r \in 1..Len(collated.rows), use_horizontal_flip \in BOOLEAN :
               LET row == collated.rows[r]
                   twice == horizontal_flip(horizontal_flip(row, use_horizontal_flip),
                                            use_horizontal_flip)
               IN /\ gather_action(gather_action(row.action)) = row.action
                  /\ float_inputs_horizontal_symmetry(
                         float_inputs_horizontal_symmetry(row.state_float)) = row.state_float
                  /\ float_inputs_horizontal_symmetry(
                         float_inputs_horizontal_symmetry(row.next_state_float))
                             = row.next_state_float
                  /\ twice = row

\* A call flipped a record with action 1 into action 2, exchanged the
\* left / right pair of its features and negated the signed one; a second
\* flip of that row gives action 1 and the stored features back.
C11_Witness ==
    /\ collated.status = "ok"
    /\ batch[1].action = 1
    /\ collated.rows[1].action = 2
    /\ batch[1].state_float[2] # batch[1].state_float[3]
    /\ collated.rows[1].state_float[2] = batch[1].state_float[3]
    /\ collated.rows[1].state_float[3] = batch[1].state_float[2]
    /\ collated.rows[1].state_float[4] = 0 - batch[1].state_float[4]
    /\ batch[1].state_float[4] # 0
    /\ horizontal_flip(collated.rows[1], TRUE).action = 1
    /\ \A k \in 2..Len(batch[1].state_float) :
           horizontal_flip(collated.rows[1], TRUE).state_float[k] = batch[1].state_float[k]

\* Row r of the batch as it is before the flip, for the crop offset j.
BeforeFlip(r, j) ==
    IF misc.apply_randomcrop_augmentation
    THEN random_crop(collate_row(batch[r], collated.current_time[r]), j)
    ELSE collate_row(batch[r], collated.current_time[r])

AllFlipped(out, base) ==
    /\ out.state_img = flip(base.state_img)
    /\ out.next_state_img = flip(base.next_state_img)
    /\ out.action = gather_action(base.action)
    /\ out.state_float = float_inputs_horizontal_symmetry(base.state_float)
    /\ out.next_state_float = float_inputs_horizontal_symmetry(base.next_state_float)

NoneFlipped(out, base) ==
    /\ out.state_img = base.state_img
    /\ out.next_state_img = base.next_state_img
    /\ out.action = base.action
    /\ out.state_float = base.state_float
    /\ out.next_state_float = base.next_state_float

\* C12: within one collate call every record has either all five of state
\* image, next-state image, action id, state features and next-state
\* features flipped, or none of them; a record that is not flipped leaves
\* the call with the action id it was stored with and, but for the time
\* feature, the features it was stored with.
C12_FlipLabelConsistent ==
    collated.status = "ok"
        => \E j \in crop_offsets(misc) :
               \A r \in 1..Len(batch) :
                   LET out == collated.rows[r]
                       base == BeforeFlip(r, j)
                   IN \/ AllFlipped(out, base)
                      \/ /\ NoneFlipped(out, base)
                         /\ out.action = batch[r].action
                         /\ \A k \in 2..Len(batch[r].state_float) :
                                /\ out.state_float[k] = batch[r].state_float[k]
                                /\ out.next_state_float[k] = batch[r].next_state_float[k]

\* In one call the first record was flipped (its image, action and both
\* feature vectors changed) and the second was not (none of them changed).
C12_Witness ==
    /\ collated.status = "ok"
    /\ Len(batch) = 2
    /\ ~misc.apply_randomcrop_augmentation
    /\ collated.rows[1].state_img # normalize_img(batch[1].state_img)
    /\ collated.rows[1].next_state_img # normalize_img(batch[1].next_state_img)
    /\ collated.rows[1].action # batch[1].action
    /\ collated.rows[1].state_float[2] # batch[1].state_float[2]
    /\ collated.rows[1].next_state_float[2] # batch[1].next_state_float[2]
    /\ collated.rows[2].state_img = normalize_img(batch[2].state_img)
    /\ collated.rows[2].next_state_img = normalize_img(batch[2].next_state_img)
    /\ collated.rows[2].action = batch[2].action
    /\ \A k \in 2..Len(batch[2].state_float) :
           /\ collated.rows[2].state_float[k] = batch[2].state_float[k]
           /\ collated.rows[2].next_state_float[k] = batch[2].next_state_float[k]

\* C14: every collate call returns, with the tensors, a completion event
\* for the asynchronous copies to the accelerator, and in every
\* interleaving the training step reads the batch only after that event
\* has completed, that is after the copies are done.
C14_TransferEventHandshake ==
    [][/\ collated'.status = "ok" => collated'.completion_event # "none"
       /\ consumer' # consumer
           => /\ collated.completion_event # "none"
              /\ transfer = "done"]_vars
====
